---- MODULE Spec2Model ----
(***************************************************************************)
(* The workout-session screen of src/app/start-workout/[templateId].tsx    *)
(* as a state machine.  The variables are the component's useState cells   *)
(* (same names), each handler of the screen is one operator from a state   *)
(* record to a state record, and each action is one event of the screen    *)
(* (a button press, a text change, an interval callback) translated with   *)
(* the gating the render function puts on it (disabled / absent controls). *)
(* Indices are 0-based as in the source; At(seq, i) reads element i.       *)
(***************************************************************************)
EXTENDS Integers, Sequences, FiniteSets, TLC

\* ---------------------------------------------------------------- bounds
\* The workout clock is not advanced beyond this many seconds.
MaxWorkoutTime == 1
\* The +30s button is not pressed when the rest clock would exceed this.
MaxRestTime == 32
\* At most this many value inputs (effective text-field edits, +30s presses) in
\* one session.
MaxInputs == 1
\* At most this many saveSession calls are in flight at a time.
MaxPendingSaves == 2
\* A plan has at most this many plan_sessions rows.
MaxPlanSessions == 2

\* ------------------------------------------------------- program constants
\* setRestTime(prev => prev + 30)
AddTimeSeconds == 30

\* JavaScript's undefined and NaN, as values no number of the model takes.
Undefined == -1
NaN == -2

\* ------------------------------------------------------------- JS helpers
At(seq, i) == seq[i + 1]

\* A JavaScript value used as a condition: undefined, NaN and 0 are falsy.
Truthy(v) == v # Undefined /\ v # NaN /\ v # 0

\* a || b
JsOr(a, b) == IF Truthy(a) THEN a ELSE b

Max(a, b) == IF a >= b THEN a ELSE b

Min(a, b) == IF a <= b THEN a ELSE b

\* The text of a numeric field, as its sequence of decimal digits.
RECURSIVE DigitsValue(_)
DigitsValue(text) ==
    IF Len(text) = 0 THEN 0
    ELSE 10 * DigitsValue(SubSeq(text, 1, Len(text) - 1)) + text[Len(text)]

\* parseInt(value): NaN for a text with no leading digits.
ParseInt(text) == IF Len(text) = 0 THEN NaN ELSE DigitsValue(text)

\* ---------------------------------------------------------------- inputs
\* One planned set of a template exercise (sets_config entry).
SetConfig(reps, weight, rest) ==
    [reps |-> reps, weight |-> weight, duration |-> Undefined, restTime |-> rest]

\* A template exercise; isArray is Array.isArray(templateExercise.sets_config).
TemplateExercise(isArray, cfg) == [isArray |-> isArray, sets_config |-> cfg]

\* The exercise lists the Template Provider hands to initializeExercises.
Templates ==
    { \* no exercises at all
      << >>,
      \* one exercise, two sets, rest 2 / 0
      << TemplateExercise(TRUE, << SetConfig(10, 50, 2), SetConfig(8, 55, 0) >>) >>,
      \* two exercises: one set (rest 1), then two sets (rest undefined / 2)
      << TemplateExercise(TRUE, << SetConfig(10, 50, 1) >>),
         TemplateExercise(TRUE, << SetConfig(12, 20, Undefined), SetConfig(12, 20, 2) >>) >>,
      \* an exercise whose sets_config is not an array, then one with one set
      << TemplateExercise(FALSE, << >>),
         TemplateExercise(TRUE, << SetConfig(10, 50, 1) >>) >>,
      \* an exercise with one set, then one with an empty sets_config
      << TemplateExercise(TRUE, << SetConfig(10, 50, 0) >>),
         TemplateExercise(TRUE, << >>) >> }

\* The texts typed into a numeric field: cleared, or "3".
InputTexts == { << >>, << 3 >> }

\* The plan ids and the profile ids (trainers) of the model.
PlanIds == {"planA", "planB"}
ProfileIds == {"trainerA", "trainerB"}

\* workout_plans has no row with that id.
NoRow == "noRow"

\* getCurrentUserProfileId threw: no user, or no profile.
NoProfile == "noProfile"

\* No deleteWorkoutPlan call is running.
NoCall ==
    [ pc |-> "idle", planId |-> "", profileId |-> NoProfile, returned |-> "",
      plansBefore |-> << >>, sessionsBefore |-> << >> ]

\* The tables as they can be: rows of plan_sessions belong to a plan that exists.
PlanTables ==
    { t \in [ plans : [PlanIds -> ProfileIds \cup {NoRow}],
              sessions : [PlanIds -> 0..MaxPlanSessions] ] :
        \A p \in PlanIds : t.plans[p] = NoRow => t.sessions[p] = 0 }

\* ----------------------------------------------------------------- state
VARIABLES
    template,               \* << >> (null) or << exercise list >>
    workoutSession,         \* << >> (null) or << session record >>
    exercises,              \* ActiveExercise[]
    currentExerciseIndex,
    isWorkoutStarted,
    isPaused,
    workoutTime,
    restTime,
    isResting,
    showRestTimer,
    showFinishModal,
    mounted,                \* the screen is on the navigation stack
    savedSessions,          \* the records saveSession has persisted
    inputs,                 \* text edits and +30s presses so far (bounded by MaxInputs)
    pendingSaves,           \* the records of the saveSession calls in flight
    alerts,                 \* the alerts of finishWorkout on screen, oldest first
    workout_plans,          \* planDatabase: plan id -> trainer_id of its row, or NoRow
    plan_sessions,          \* planDatabase: plan id -> number of rows with that plan_id
    deletePlan              \* planDatabase: the deleteWorkoutPlan call, where it stands

vars == << template, workoutSession, exercises, currentExerciseIndex,
           isWorkoutStarted, isPaused, workoutTime, restTime, isResting,
           showRestTimer, showFinishModal, mounted, savedSessions, inputs,
           pendingSaves, alerts, workout_plans, plan_sessions, deletePlan >>

\* The variables of the workout screen and those of planDatabase.
screenVars == << template, workoutSession, exercises, currentExerciseIndex,
                 isWorkoutStarted, isPaused, workoutTime, restTime, isResting,
                 showRestTimer, showFinishModal, mounted, savedSessions, inputs,
                 pendingSaves, alerts >>

planVars == << workout_plans, plan_sessions, deletePlan >>

\* The component's state as one record; the handlers below map it to the next.
State ==
    [ template |-> template,
      workoutSession |-> workoutSession,
      exercises |-> exercises,
      currentExerciseIndex |-> currentExerciseIndex,
      isWorkoutStarted |-> isWorkoutStarted,
      isPaused |-> isPaused,
      workoutTime |-> workoutTime,
      restTime |-> restTime,
      isResting |-> isResting,
      showRestTimer |-> showRestTimer,
      showFinishModal |-> showFinishModal ]

\* The useState initial values.
InitialState ==
    [ template |-> << >>,
      workoutSession |-> << >>,
      exercises |-> << >>,
      currentExerciseIndex |-> 0,
      isWorkoutStarted |-> FALSE,
      isPaused |-> FALSE,
      workoutTime |-> 0,
      restTime |-> 0,
      isResting |-> FALSE,
      showRestTimer |-> FALSE,
      showFinishModal |-> FALSE ]

\* Commit a handler's result: the re-render with the new state.
Commit(s) ==
    /\ template' = s.template
    /\ workoutSession' = s.workoutSession
    /\ exercises' = s.exercises
    /\ currentExerciseIndex' = s.currentExerciseIndex
    /\ isWorkoutStarted' = s.isWorkoutStarted
    /\ isPaused' = s.isPaused
    /\ workoutTime' = s.workoutTime
    /\ restTime' = s.restTime
    /\ isResting' = s.isResting
    /\ showRestTimer' = s.showRestTimer
    /\ showFinishModal' = s.showFinishModal

\* The main screen is rendered (not "Loading workout...", not "No exercises
\* found") and no alert of finishWorkout lies over it, so its controls exist
\* and take presses.
Rendered == mounted /\ template # << >> /\ Len(exercises) > 0 /\ alerts = << >>

\* An initializeExercises that lists the exercises last to first.
initializeExercisesReversed(s, templateExercises) ==
    IF Len(templateExercises) = 0
    THEN [s EXCEPT !.exercises = << >>]
    ELSE [s EXCEPT !.exercises =
            [i \in 1..Len(templateExercises) |->
                LET templateExercise ==
                        templateExercises[Len(templateExercises) + 1 - i]
                IN  [ sets |->
                        IF templateExercise.isArray
                        THEN [j \in 1..Len(templateExercise.sets_config) |->
                                [ reps |-> templateExercise.sets_config[j].reps,
                                  weight |-> templateExercise.sets_config[j].weight,
                                  duration |-> templateExercise.sets_config[j].duration,
                                  restTime |-> templateExercise.sets_config[j].restTime,
                                  completed |-> FALSE ]]
                        ELSE << >>,
                      currentSetIndex |-> 0 ]]]

\* ------------------------------------------------------------- handlers
\* initializeExercises(template)
initializeExercises(s, templateExercises) ==
    IF Len(templateExercises) = 0
    THEN [s EXCEPT !.exercises = << >>]
    ELSE [s EXCEPT !.exercises =
            [i \in 1..Len(templateExercises) |->
                [ sets |->
                    IF templateExercises[i].isArray
                    THEN [j \in 1..Len(templateExercises[i].sets_config) |->
                            [ reps |-> templateExercises[i].sets_config[j].reps,
                              weight |-> templateExercises[i].sets_config[j].weight,
                              duration |-> templateExercises[i].sets_config[j].duration,
                              restTime |-> templateExercises[i].sets_config[j].restTime,
                              completed |-> FALSE ]]
                    ELSE << >>,
                  currentSetIndex |-> 0 ]]]

\* initializeWorkoutSession(template)
initializeWorkoutSession(s) ==
    [s EXCEPT !.workoutSession = << [completed |-> FALSE, synced |-> FALSE] >>]

\* loadTemplate, on the path where the template is found.
loadTemplate(s, templateExercises) ==
    initializeWorkoutSession(
        initializeExercises([s EXCEPT !.template = << templateExercises >>],
                            templateExercises))

\* A startWorkout that also rebuilds the exercises from the template.
startWorkoutReinitializing(s) ==
    initializeExercises([s EXCEPT !.isWorkoutStarted = TRUE, !.isPaused = FALSE],
                        s.template[1])

\* startWorkout
startWorkout(s) == [s EXCEPT !.isWorkoutStarted = TRUE, !.isPaused = FALSE]

\* pauseWorkout
pauseWorkout(s) == [s EXCEPT !.isPaused = TRUE]

\* resumeWorkout
resumeWorkout(s) == [s EXCEPT !.isPaused = FALSE]

\* A workout timer that pause does not stop.
WorkoutTimerRunningIgnoringPause(s) == s.isWorkoutStarted

\* The workout-timer effect: its interval exists iff started and not paused.
WorkoutTimerRunning(s) == s.isWorkoutStarted /\ ~s.isPaused

\* One second on the workout timer: the interval callback, if there is one.
workoutTimerTick(s) ==
    IF WorkoutTimerRunning(s)
    THEN [s EXCEPT !.workoutTime = s.workoutTime + 1]
    ELSE s

\* A rest timer that pause stops as well.
RestTimerRunningUnlessPaused(s) == s.isResting /\ s.restTime > 0 /\ ~s.isPaused

\* The rest-timer effect: its interval exists iff resting with time left.
RestTimerRunning(s) == s.isResting /\ s.restTime > 0

\* A rest-timer callback that finishes the rest one tick late (prev <= 0).
restTimerTickLate(s) ==
    IF RestTimerRunning(s)
    THEN IF s.restTime <= 0
         THEN [s EXCEPT !.restTime = 0, !.isResting = FALSE, !.showRestTimer = FALSE]
         ELSE [s EXCEPT !.restTime = s.restTime - 1]
    ELSE s

\* One second on the rest timer: the interval callback, if there is one.
restTimerTick(s) ==
    IF RestTimerRunning(s)
    THEN IF s.restTime <= 1
         THEN [s EXCEPT !.restTime = 0, !.isResting = FALSE, !.showRestTimer = FALSE]
         ELSE [s EXCEPT !.restTime = s.restTime - 1]
    ELSE s

\* A merge that takes the values but leaves the completed flag as it was.
MergeSetKeepingFlag(set, updatedSet) ==
    [f \in DOMAIN set |->
        IF f \in DOMAIN updatedSet THEN updatedSet[f] ELSE set[f]]

\* completeSet(exerciseIndex, setIndex, updatedSet): the merge of updatedSet
\* into the set, with completed: true.
MergeSet(set, updatedSet) ==
    [f \in DOMAIN set |->
        IF f = "completed" THEN TRUE
        ELSE IF f \in DOMAIN updatedSet THEN updatedSet[f] ELSE set[f]]

\* updatedSet.restTime || exercises[exerciseIndex].sets[setIndex].restTime
EffectiveRest(s, exerciseIndex, setIndex, updatedSet) ==
    JsOr(IF "restTime" \in DOMAIN updatedSet THEN updatedSet.restTime ELSE Undefined,
         At(At(s.exercises, exerciseIndex).sets, setIndex).restTime)

\* A StartRest that leaves a rest that is already running alone.
StartRestUnlessResting(s, restTimeSeconds) ==
    IF Truthy(restTimeSeconds) /\ restTimeSeconds > 0 /\ ~s.isResting
    THEN [s EXCEPT !.restTime = restTimeSeconds, !.isResting = TRUE,
                   !.showRestTimer = TRUE]
    ELSE s

\* "Start rest timer if specified"
StartRest(s, restTimeSeconds) ==
    IF Truthy(restTimeSeconds) /\ restTimeSeconds > 0
    THEN [s EXCEPT !.restTime = restTimeSeconds, !.isResting = TRUE,
                   !.showRestTimer = TRUE]
    ELSE s

\* An Advance that goes on to the next exercise after any last set, the last
\* exercise's included.
AdvancePastLastExercise(s, exerciseIndex, setIndex) ==
    IF setIndex < Len(At(s.exercises, exerciseIndex).sets) - 1
    THEN [s EXCEPT !.exercises[exerciseIndex + 1].currentSetIndex = setIndex + 1]
    ELSE [s EXCEPT !.currentExerciseIndex = exerciseIndex + 1]

\* An Advance whose last branch opens nothing.
AdvanceNotOpeningFinish(s, exerciseIndex, setIndex) ==
    IF setIndex < Len(At(s.exercises, exerciseIndex).sets) - 1
    THEN [s EXCEPT !.exercises[exerciseIndex + 1].currentSetIndex = setIndex + 1]
    ELSE IF exerciseIndex < Len(s.exercises) - 1
         THEN [s EXCEPT !.currentExerciseIndex = exerciseIndex + 1]
         ELSE s

\* An Advance that restarts the next exercise at its first set.
AdvanceResettingNext(s, exerciseIndex, setIndex) ==
    IF setIndex < Len(At(s.exercises, exerciseIndex).sets) - 1
    THEN [s EXCEPT !.exercises[exerciseIndex + 1].currentSetIndex = setIndex + 1]
    ELSE IF exerciseIndex < Len(s.exercises) - 1
         THEN [s EXCEPT !.currentExerciseIndex = exerciseIndex + 1,
                        !.exercises[exerciseIndex + 2].currentSetIndex = 0]
         ELSE [s EXCEPT !.showFinishModal = TRUE]

\* "Move to next set or exercise"
Advance(s, exerciseIndex, setIndex) ==
    IF setIndex < Len(At(s.exercises, exerciseIndex).sets) - 1
    THEN [s EXCEPT !.exercises[exerciseIndex + 1].currentSetIndex = setIndex + 1]
    ELSE IF exerciseIndex < Len(s.exercises) - 1
         THEN [s EXCEPT !.currentExerciseIndex = exerciseIndex + 1]
         ELSE [s EXCEPT !.showFinishModal = TRUE]

completeSet(s, exerciseIndex, setIndex, updatedSet) ==
    LET marked == [s EXCEPT !.exercises[exerciseIndex + 1].sets[setIndex + 1] =
                       MergeSet(At(At(s.exercises, exerciseIndex).sets, setIndex),
                                updatedSet)]
    IN  Advance(StartRest(marked,
                          EffectiveRest(s, exerciseIndex, setIndex, updatedSet)),
                exerciseIndex, setIndex)

\* A skipRestTimer that closes the rest without clearing its clock.
skipRestTimerKeepingClock(s) ==
    [s EXCEPT !.isResting = FALSE, !.showRestTimer = FALSE]

\* skipRestTimer
skipRestTimer(s) ==
    [s EXCEPT !.isResting = FALSE, !.showRestTimer = FALSE, !.restTime = 0]

\* The +30s button: setRestTime(prev => prev + 30)
addRestTime(s) == [s EXCEPT !.restTime = s.restTime + AddTimeSeconds]

\* Previous Exercise: setCurrentExerciseIndex(Math.max(0, currentExerciseIndex - 1))
previousExercise(s) ==
    [s EXCEPT !.currentExerciseIndex = Max(0, s.currentExerciseIndex - 1)]

\* A Next Exercise that opens the exercise it moves to at its first set.
nextExerciseRestarting(s) ==
    LET target == Min(Len(s.exercises) - 1, s.currentExerciseIndex + 1)
    IN  [s EXCEPT !.currentExerciseIndex = target,
                  !.exercises[target + 1].currentSetIndex = 0]

\* Next Exercise:
\* setCurrentExerciseIndex(Math.min(exercises.length - 1, currentExerciseIndex + 1))
nextExercise(s) ==
    [s EXCEPT !.currentExerciseIndex =
        Min(Len(s.exercises) - 1, s.currentExerciseIndex + 1)]

\* The Reps field's onChangeText: sets[setIndex].reps = parseInt(value) || 0
editReps(s, setIndex, value) ==
    [s EXCEPT !.exercises[s.currentExerciseIndex + 1].sets[setIndex + 1].reps =
        JsOr(ParseInt(value), 0)]

\* The Rest field's onChangeText: sets[setIndex].restTime = parseInt(value) || 0
editRestTime(s, setIndex, value) ==
    [s EXCEPT !.exercises[s.currentExerciseIndex + 1].sets[setIndex + 1].restTime =
        JsOr(ParseInt(value), 0)]

\* The text fields of a set row that the model types into.  (The Weight field
\* is the Reps field with parseFloat; weight is carried as the template gave it.)
SetFields == {"reps", "restTime"}

editField(s, field, setIndex, value) ==
    CASE field = "reps" -> editReps(s, setIndex, value)
      [] field = "restTime" -> editRestTime(s, setIndex, value)

\* The Finish Workout button: setShowFinishModal(true)
openFinishModal(s) == [s EXCEPT !.showFinishModal = TRUE]

\* The finish modal's X and onRequestClose: setShowFinishModal(false)
closeFinishModal(s) == [s EXCEPT !.showFinishModal = FALSE]

\* finishWorkout: the record handed to saveSession (completedSession).
CompletedSession(s) ==
    [ completed |-> TRUE,
      synced |-> s.workoutSession[1].synced,
      exercises |->
        [i \in 1..Len(s.exercises) |->
            [ sets |->
                [j \in 1..Len(s.exercises[i].sets) |->
                    [ reps |-> s.exercises[i].sets[j].reps,
                      weight |-> s.exercises[i].sets[j].weight,
                      duration |-> s.exercises[i].sets[j].duration,
                      restTime |-> s.exercises[i].sets[j].restTime,
                      completed |-> s.exercises[i].sets[j].completed ]] ]] ]

\* ------------------------------------------------------- render gating
\* A row whose button is never disabled.
RowControlNeverDisabled(exercise, setIndex) ==
    IF At(exercise.sets, setIndex).completed THEN "completedBadge"
    ELSE "completeButton"

\* A row that shows the button for a completed set too.
RowControlNoBadge(exercise, setIndex) ==
    IF exercise.currentSetIndex = setIndex THEN "completeButton"
    ELSE "disabledButton"

\* renderSetInput: what the last column of row setIndex shows.
RowControl(exercise, setIndex) ==
    IF At(exercise.sets, setIndex).completed THEN "completedBadge"
    ELSE IF exercise.currentSetIndex = setIndex THEN "completeButton"
    ELSE "disabledButton"

\* editable={!isCompleted} on the three text fields of a row.
Editable(exercise, setIndex) == ~At(exercise.sets, setIndex).completed

\* disabled={currentExerciseIndex === 0}
PreviousDisabled(s) == s.currentExerciseIndex = 0

\* disabled={currentExerciseIndex === exercises.length - 1}
NextDisabled(s) == s.currentExerciseIndex = Len(s.exercises) - 1

\* onPress={() => completeSet(currentExerciseIndex, setIndex, set)} on the
\* Complete button of row setIndex; the badge and a disabled button call nothing.
pressRow(s, setIndex) ==
    IF RowControl(At(s.exercises, s.currentExerciseIndex), setIndex) = "completeButton"
    THEN completeSet(s, s.currentExerciseIndex, setIndex,
                     At(At(s.exercises, s.currentExerciseIndex).sets, setIndex))
    ELSE s

currentExercise == At(exercises, currentExerciseIndex)

SetIndices == 0 .. (Len(currentExercise.sets) - 1)

\* ---------------------------------------------------------------- actions
\* The screen as it is mounted: the useState initial values.
ScreenInit ==
    /\ template = InitialState.template
    /\ workoutSession = InitialState.workoutSession
    /\ exercises = InitialState.exercises
    /\ currentExerciseIndex = InitialState.currentExerciseIndex
    /\ isWorkoutStarted = InitialState.isWorkoutStarted
    /\ isPaused = InitialState.isPaused
    /\ workoutTime = InitialState.workoutTime
    /\ restTime = InitialState.restTime
    /\ isResting = InitialState.isResting
    /\ showRestTimer = InitialState.showRestTimer
    /\ showFinishModal = InitialState.showFinishModal
    /\ mounted = TRUE
    /\ savedSessions = << >>
    /\ inputs = 0
    /\ pendingSaves = << >>
    /\ alerts = << >>

\* The screen is mounted; planDatabase has no plan and no call running.
Init ==
    /\ ScreenInit
    /\ workout_plans = [p \in PlanIds |-> NoRow]
    /\ plan_sessions = [p \in PlanIds |-> 0]
    /\ deletePlan = NoCall

\* useEffect(() => { loadTemplate() }, []): the template arrives.
LoadTemplate ==
    /\ mounted /\ template = << >>
    /\ \E t \in Templates : Commit(loadTemplate(State, t))
    /\ UNCHANGED << mounted, savedSessions, inputs, pendingSaves, alerts >>
    /\ UNCHANGED planVars

\* loadTemplate's failure paths (not found, fetch error): router.back().
\* exitWorkout's "Exit" does the same.  The component state is discarded.
Unmount ==
    /\ mounted /\ alerts = << >>
    /\ Commit(InitialState)
    /\ mounted' = FALSE
    /\ inputs' = 0
    /\ UNCHANGED << savedSessions, pendingSaves, alerts >>
    /\ UNCHANGED planVars

\* The header's Play button, shown while !isWorkoutStarted.
StartWorkout ==
    /\ Rendered /\ ~isWorkoutStarted
    /\ Commit(startWorkout(State))
    /\ UNCHANGED << mounted, savedSessions, inputs, pendingSaves, alerts >>
    /\ UNCHANGED planVars

\* The header's Pause button, shown while started and not paused.
PauseWorkout ==
    /\ Rendered /\ isWorkoutStarted /\ ~isPaused
    /\ Commit(pauseWorkout(State))
    /\ UNCHANGED << mounted, savedSessions, inputs, pendingSaves, alerts >>
    /\ UNCHANGED planVars

\* The header's Play button while paused.
ResumeWorkout ==
    /\ Rendered /\ isWorkoutStarted /\ isPaused
    /\ Commit(resumeWorkout(State))
    /\ UNCHANGED << mounted, savedSessions, inputs, pendingSaves, alerts >>
    /\ UNCHANGED planVars

\* A second passes on the workout timer.
WorkoutTimerTick ==
    /\ mounted /\ template # << >>
    /\ workoutTime < MaxWorkoutTime
    /\ Commit(workoutTimerTick(State))
    /\ UNCHANGED << mounted, savedSessions, inputs, pendingSaves, alerts >>
    /\ UNCHANGED planVars

\* A second passes on the rest timer.
RestTimerTick ==
    /\ mounted /\ template # << >>
    /\ Commit(restTimerTick(State))
    /\ UNCHANGED << mounted, savedSessions, inputs, pendingSaves, alerts >>
    /\ UNCHANGED planVars

\* A press on the last column of row setIndex of the current exercise: the
\* Complete button calls completeSet(currentExerciseIndex, setIndex, set); a
\* disabled button and the completed badge call nothing.
PressComplete ==
    /\ Rendered
    /\ \E setIndex \in SetIndices :
         Commit(pressRow(State, setIndex))
    /\ UNCHANGED << mounted, savedSessions, inputs, pendingSaves, alerts >>
    /\ UNCHANGED planVars

\* The rest modal's Skip Rest button.
SkipRest ==
    /\ Rendered /\ showRestTimer
    /\ Commit(skipRestTimer(State))
    /\ UNCHANGED << mounted, savedSessions, inputs, pendingSaves, alerts >>
    /\ UNCHANGED planVars

\* The rest modal's +30s button.
AddRestTime ==
    /\ Rendered /\ showRestTimer
    /\ restTime + AddTimeSeconds <= MaxRestTime
    /\ inputs < MaxInputs
    /\ Commit(addRestTime(State))
    /\ inputs' = inputs + 1
    /\ UNCHANGED << mounted, savedSessions, pendingSaves, alerts >>
    /\ UNCHANGED planVars

\* The rest modal's onRequestClose: setShowRestTimer(false).
CloseRestTimer ==
    /\ Rendered /\ showRestTimer
    /\ Commit([State EXCEPT !.showRestTimer = FALSE])
    /\ UNCHANGED << mounted, savedSessions, inputs, pendingSaves, alerts >>
    /\ UNCHANGED planVars

\* A press on Previous Exercise; a disabled button calls nothing.
PressPrevious ==
    /\ Rendered
    /\ Commit(IF PreviousDisabled(State) THEN State ELSE previousExercise(State))
    /\ UNCHANGED << mounted, savedSessions, inputs, pendingSaves, alerts >>
    /\ UNCHANGED planVars

\* A press on Next Exercise; a disabled button calls nothing.
PressNext ==
    /\ Rendered
    /\ Commit(IF NextDisabled(State) THEN State ELSE nextExercise(State))
    /\ UNCHANGED << mounted, savedSessions, inputs, pendingSaves, alerts >>
    /\ UNCHANGED planVars

\* Typing into a text field of row setIndex of the current exercise; a field
\* that is not editable takes no text.
EditSetField ==
    /\ Rendered
    /\ \E setIndex \in SetIndices, field \in SetFields, value \in InputTexts :
         IF Editable(currentExercise, setIndex)
         THEN /\ inputs < MaxInputs
              /\ Commit(editField(State, field, setIndex, value))
              /\ inputs' = inputs + 1
         ELSE /\ Commit(State)
              /\ inputs' = inputs
    /\ UNCHANGED << mounted, savedSessions, pendingSaves, alerts >>
    /\ UNCHANGED planVars

\* The Finish Workout button under the exercise card.
OpenFinishModal ==
    /\ Rendered /\ ~showFinishModal
    /\ Commit(openFinishModal(State))
    /\ UNCHANGED << mounted, savedSessions, inputs, pendingSaves, alerts >>
    /\ UNCHANGED planVars

\* The finish modal's X.
CloseFinishModal ==
    /\ Rendered /\ showFinishModal
    /\ Commit(closeFinishModal(State))
    /\ UNCHANGED << mounted, savedSessions, inputs, pendingSaves, alerts >>
    /\ UNCHANGED planVars

\* The finish modal's Save Workout button: finishWorkout.  The handler sets no
\* component state: it builds the record, awaits saveSession and shows an alert.
\* If the save fails the screen goes on as it was; if it succeeds the alert's
\* OK replaces the screen (router.replace), which discards the component.
\* Here the call settles and the alert is answered before anything else
\* happens; SaveWorkoutCall, SaveSettles and DismissAlert take the same handler
\* one step at a time.
PressSaveWorkout ==
    /\ Rendered /\ showFinishModal /\ pendingSaves = << >>
    /\ \E saved \in BOOLEAN :
         IF workoutSession # << >> /\ saved
         THEN /\ savedSessions' = Append(savedSessions, CompletedSession(State))
              /\ Commit(InitialState)
              /\ mounted' = FALSE
              /\ inputs' = 0
              /\ UNCHANGED << pendingSaves, alerts >>
         ELSE UNCHANGED vars
    /\ UNCHANGED planVars

\* The Save Workout button, finishWorkout up to its await: the record is built
\* from the state of the press and handed to saveSession.  No component state is
\* set, and the button stays enabled while the call is in flight.
SaveWorkoutCall ==
    /\ Rendered /\ showFinishModal
    /\ Len(pendingSaves) < MaxPendingSaves
    /\ pendingSaves' = IF workoutSession # << >>
                       THEN Append(pendingSaves, CompletedSession(State))
                       ELSE pendingSaves
    /\ Commit(State)
    /\ UNCHANGED << mounted, savedSessions, inputs, alerts >>
    /\ UNCHANGED planVars

\* A saveSession call in flight settles and finishWorkout goes on after its
\* await: the record is persisted and "Workout Complete!" is shown, or the call
\* threw and "Failed to save workout session" is shown.  A call in flight does
\* not need the screen: it settles after the screen is gone as well.
SaveSettles ==
    /\ pendingSaves # << >>
    /\ \E saved \in BOOLEAN :
         /\ savedSessions' = IF saved THEN Append(savedSessions, Head(pendingSaves))
                             ELSE savedSessions
         /\ alerts' = IF mounted
                      THEN Append(alerts, IF saved THEN "saved" ELSE "error")
                      ELSE alerts
    /\ pendingSaves' = Tail(pendingSaves)
    /\ Commit(State)
    /\ UNCHANGED << mounted, inputs >>
    /\ UNCHANGED planVars

\* The button of the alert on screen.  OK of "Workout Complete!" is
\* router.replace('/(tabs)'), which discards the component; the error alert
\* just closes.
DismissAlert ==
    /\ mounted /\ alerts # << >>
    /\ IF Head(alerts) = "saved"
       THEN /\ Commit(InitialState)
            /\ mounted' = FALSE
            /\ inputs' = 0
            /\ alerts' = << >>
       ELSE /\ Commit(State)
            /\ alerts' = Tail(alerts)
            /\ UNCHANGED << mounted, inputs >>
    /\ UNCHANGED << savedSessions, pendingSaves >>
    /\ UNCHANGED planVars

Next ==
    \/ LoadTemplate
    \/ Unmount
    \/ StartWorkout
    \/ PauseWorkout
    \/ ResumeWorkout
    \/ WorkoutTimerTick
    \/ RestTimerTick
    \/ PressComplete
    \/ SkipRest
    \/ AddRestTime
    \/ CloseRestTimer
    \/ PressPrevious
    \/ PressNext
    \/ EditSetField
    \/ OpenFinishModal
    \/ CloseFinishModal
    \/ PressSaveWorkout

Spec == Init /\ [][Next]_vars

\* The screen with finishWorkout taken one step at a time: Save Workout calls
\* saveSession, calls settle in their own time, alerts are answered.  Values are
\* as the template gave them (no text edits, no +30s).
FinishNext ==
    \/ LoadTemplate
    \/ Unmount
    \/ StartWorkout
    \/ PauseWorkout
    \/ ResumeWorkout
    \/ WorkoutTimerTick
    \/ RestTimerTick
    \/ PressComplete
    \/ SkipRest
    \/ CloseRestTimer
    \/ PressPrevious
    \/ PressNext
    \/ OpenFinishModal
    \/ CloseFinishModal
    \/ SaveWorkoutCall
    \/ SaveSettles
    \/ DismissAlert

FinishSpec == Init /\ [][FinishNext]_vars

\* ------------------------------------------------------- planDatabase.ts
\* deleteWorkoutPlan of src/unnamed/part_000 (lib/planDatabase.ts) against the
\* two tables it touches.  Each await of the function is one step; the outcome
\* of a backend request (data or error) is the backend's choice.

\* The negation of `planError || !plan || plan.trainer_id !== profileId`, for a
\* select that answered: .single() gives an error when there is no row.
IsTrainerOfPlan(plans, planId, profileId) ==
    plans[planId] # NoRow /\ plans[planId] = profileId

\* deletePlanSessions, its request succeeding:
\* from('plan_sessions').delete().eq('plan_id', planId)
deletePlanSessions(sessions, planId) == [sessions EXCEPT ![planId] = 0]

\* from('workout_plans').delete().eq('id', planId), succeeding.
deletePlanRow(plans, planId) == [plans EXCEPT ![planId] = NoRow]

\* deleteWorkoutPlan's `return false` / `return true`.
Returns(value) == [deletePlan EXCEPT !.pc = "done", !.returned = value]

\* deleteWorkoutPlan(planId) is called.
CallDeleteWorkoutPlan ==
    /\ deletePlan.pc = "idle"
    /\ \E planId \in PlanIds :
         deletePlan' = [ pc |-> "getProfile", planId |-> planId,
                         profileId |-> NoProfile, returned |-> "",
                         plansBefore |-> workout_plans,
                         sessionsBefore |-> plan_sessions ]
    /\ UNCHANGED << workout_plans, plan_sessions >>
    /\ UNCHANGED screenVars

\* await getCurrentUserProfileId(): a profile id, or it throws and the catch
\* block returns false.
GetProfileId ==
    /\ deletePlan.pc = "getProfile"
    /\ \E profileId \in ProfileIds \cup {NoProfile} :
         deletePlan' = IF profileId = NoProfile
                       THEN Returns("false")
                       ELSE [deletePlan EXCEPT !.pc = "verify",
                                               !.profileId = profileId]
    /\ UNCHANGED << workout_plans, plan_sessions >>
    /\ UNCHANGED screenVars

\* "Verify user is the trainer of this plan": the select of trainer_id.
VerifyTrainer ==
    /\ deletePlan.pc = "verify"
    /\ \E planError \in BOOLEAN :
         deletePlan' =
            IF planError \/ ~IsTrainerOfPlan(workout_plans, deletePlan.planId,
                                             deletePlan.profileId)
            THEN Returns("false")
            ELSE [deletePlan EXCEPT !.pc = "deleteSessions"]
    /\ UNCHANGED << workout_plans, plan_sessions >>
    /\ UNCHANGED screenVars

\* await deletePlanSessions(planId): the rows go, or the request fails,
\* deletePlanSessions throws and the catch block returns false.
DeleteSessions ==
    /\ deletePlan.pc = "deleteSessions"
    /\ \E error \in BOOLEAN :
         IF error
         THEN /\ deletePlan' = Returns("false")
              /\ UNCHANGED plan_sessions
         ELSE /\ deletePlan' = [deletePlan EXCEPT !.pc = "deletePlan"]
              /\ plan_sessions' = deletePlanSessions(plan_sessions, deletePlan.planId)
    /\ UNCHANGED workout_plans
    /\ UNCHANGED screenVars

\* "Then delete the plan": the row goes and the function returns true, or the
\* request fails and it returns false.
DeletePlan ==
    /\ deletePlan.pc = "deletePlan"
    /\ \E error \in BOOLEAN :
         IF error
         THEN /\ deletePlan' = Returns("false")
              /\ UNCHANGED workout_plans
         ELSE /\ deletePlan' = Returns("true")
              /\ workout_plans' = deletePlanRow(workout_plans, deletePlan.planId)
    /\ UNCHANGED plan_sessions
    /\ UNCHANGED screenVars

\* The caller has the result; the next call can come.
ReturnToCaller ==
    /\ deletePlan.pc = "done"
    /\ deletePlan' = NoCall
    /\ UNCHANGED << workout_plans, plan_sessions >>
    /\ UNCHANGED screenVars

PlanInit ==
    /\ ScreenInit
    /\ \E t \in PlanTables :
         /\ workout_plans = t.plans
         /\ plan_sessions = t.sessions
    /\ deletePlan = NoCall

PlanNext ==
    \/ CallDeleteWorkoutPlan
    \/ GetProfileId
    \/ VerifyTrainer
    \/ DeleteSessions
    \/ DeletePlan
    \/ ReturnToCaller

PlanSpec == PlanInit /\ [][PlanNext]_vars

\* ------------------------------------------------------------------ claims
\* Set (i, j) (1-based positions) exists and is completed in state record s.
IsCompleted(s, i, j) ==
    /\ i \in DOMAIN s.exercises
    /\ j \in DOMAIN s.exercises[i].sets
    /\ s.exercises[i].sets[j].completed

\* The positions of all sets of the session.
SetPositions ==
    UNION { { << i, j >> : j \in DOMAIN exercises[i].sets } : i \in DOMAIN exercises }

\* C1: once a set's completed flag is true it stays true for as long as the
\* session lives: no step of the screen takes a completed set back to
\* completed = false.
C1_CompletedNeverReverts ==
    [][mounted' =>
        \A p \in SetPositions :
            IsCompleted(State, p[1], p[2]) => IsCompleted(State', p[1], p[2])]_vars

\* A completed set in a session that went on afterwards: the clock ran, a value
\* was typed or the rest extended, and no rest is running any more.
C1_Witness ==
    /\ mounted /\ inputs = 1 /\ workoutTime = 1 /\ ~isResting
    /\ \E p \in SetPositions : IsCompleted(State, p[1], p[2])

\* C2 (as claimed): a press on any row other than the current one is rejected as
\* NotCurrentSet, that is, meets the disabled Complete button, and changes no
\* state.
C2_Original ==
    Rendered =>
        \A setIndex \in SetIndices :
            setIndex # currentExercise.currentSetIndex =>
                /\ RowControl(currentExercise, setIndex) = "disabledButton"
                /\ pressRow(State, setIndex) = State

\* A step completes set (i, j): its flag goes from false to true.
Completes(i, j) == ~IsCompleted(State, i, j) /\ IsCompleted(State', i, j)

\* C2 (amended): a press on a row other than the current one is always rejected
\* and changes no state, as NotCurrentSet (disabled button) when the set is not
\* completed and as AlreadyCompleted (badge) when it is; and a step only ever
\* completes the set its exercise's currentSetIndex points at.
C2_OnlyCurrentSetCompletes ==
    /\ [](Rendered =>
            \A setIndex \in SetIndices :
                setIndex # currentExercise.currentSetIndex =>
                    /\ RowControl(currentExercise, setIndex) =
                         IF At(currentExercise.sets, setIndex).completed
                         THEN "completedBadge" ELSE "disabledButton"
                    /\ pressRow(State, setIndex) = State)
    /\ [][\A p \in SetPositions :
            Completes(p[1], p[2]) =>
                exercises[p[1]].currentSetIndex = p[2] - 1]_vars

\* An exercise with two sets on screen whose second row waits, disabled, behind
\* the current first one.
C2_Witness ==
    /\ Rendered /\ Len(currentExercise.sets) >= 2
    /\ currentExercise.currentSetIndex = 0
    /\ RowControl(currentExercise, 1) = "disabledButton"

\* C3: with a set completed, a second press on the same (exercise, set) is
\* rejected as AlreadyCompleted (the row shows the badge, no button) and leaves
\* the whole state as it is: set values, both cursors, rest clock, resting flag.
C3_SecondCompleteRejected ==
    Rendered =>
        \A setIndex \in SetIndices :
            At(currentExercise.sets, setIndex).completed =>
                /\ RowControl(currentExercise, setIndex) = "completedBadge"
                /\ pressRow(State, setIndex) = State

\* The last set of an exercise was completed, is still the one the cursor points
\* at, and the rest it started is running.
C3_Witness ==
    /\ Rendered /\ isResting /\ Len(currentExercise.sets) >= 1
    /\ At(currentExercise.sets, currentExercise.currentSetIndex).completed

\* The currentSetIndex of every exercise, in order.
SetCursors(s) == [i \in DOMAIN s.exercises |-> s.exercises[i].currentSetIndex]

\* C4: a step that completes set j of exercise i moves exactly one cursor: if j
\* is not the exercise's last set, that exercise's currentSetIndex becomes
\* setIndex + 1 and nothing else moves; otherwise, if i is not the last exercise,
\* the exercise cursor goes up by one and no exercise's currentSetIndex changes.
C4_AdvancesOneCursor ==
    [][\A p \in SetPositions :
        Completes(p[1], p[2]) =>
            IF p[2] < Len(exercises[p[1]].sets)
            THEN /\ SetCursors(State') =
                      [SetCursors(State) EXCEPT ![p[1]] = (p[2] - 1) + 1]
                 /\ currentExerciseIndex' = currentExerciseIndex
            ELSE IF p[1] < Len(exercises)
                 THEN /\ currentExerciseIndex' = currentExerciseIndex + 1
                      /\ SetCursors(State') = SetCursors(State)
                 ELSE TRUE]_vars

\* The first exercise's last set was completed while the second exercise, visited
\* earlier, already stood at its second set: the exercise cursor moved on and the
\* second exercise kept its own cursor.
C4_Witness ==
    /\ Rendered /\ Len(exercises) = 2 /\ currentExerciseIndex = 1
    /\ IsCompleted(State, 1, Len(exercises[1].sets))
    /\ exercises[2].currentSetIndex = 1
    /\ ~IsCompleted(State, 2, 2)

\* The last set of the last exercise exists and is completed.
FinalSetCompleted ==
    /\ mounted /\ Len(exercises) > 0
    /\ IsCompleted(State, Len(exercises), Len(exercises[Len(exercises)].sets))

\* C5 (as claimed): once the final set of the final exercise is completed, the
\* session's completed flag is true, with no finishWorkout having run.
C5_SessionCompletedAfterFinalSet ==
    FinalSetCompleted => workoutSession[1].completed

\* C6: a step that completes a set takes that set's rest (the values handed to
\* completeSet are the set itself) as the effective rest: if it is > 0 the screen
\* is resting afterwards with the rest clock at exactly that value, whatever rest
\* was running; if it is 0 (or absent) the resting flag and the rest clock stay
\* exactly as they were.
C6_EffectiveRest ==
    [][\A p \in SetPositions :
        Completes(p[1], p[2]) =>
            LET rest == exercises[p[1]].sets[p[2]].restTime
            IN  IF rest # Undefined /\ rest > 0
                THEN isResting' /\ restTime' = rest
                ELSE isResting' = isResting /\ restTime' = restTime]_vars

\* The example of the specification: one exercise, rest 2 then 0; both sets are
\* completed and the rest started by the first is still at its full value.
C6_Witness ==
    /\ Rendered /\ Len(exercises) = 1
    /\ IsCompleted(State, 1, 1) /\ IsCompleted(State, 1, 2)
    /\ exercises[1].sets[1].restTime = 2 /\ exercises[1].sets[2].restTime = 0
    /\ isResting /\ restTime = 2

\* C7: the workout clock moves only by a tick taken while started and not
\* paused, and then by exactly one second: a tick with started = false or with
\* paused = true leaves it where it is, so it never decreases and is still 0
\* before startWorkout.
C7_WorkoutClockGated ==
    /\ [](mounted =>
            /\ workoutTimerTick(State).workoutTime =
                 IF isWorkoutStarted /\ ~isPaused THEN workoutTime + 1 ELSE workoutTime
            /\ (~isWorkoutStarted => workoutTime = 0))
    /\ [][mounted' =>
            /\ workoutTime' >= workoutTime
            /\ (workoutTime' # workoutTime =>
                   /\ isWorkoutStarted /\ ~isPaused
                   /\ workoutTime' = workoutTime + 1
                   /\ State' = workoutTimerTick(State))]_vars

\* The clock ran for a second and the workout is paused now.
C7_Witness == mounted /\ isWorkoutStarted /\ isPaused /\ workoutTime = 1

\* C8: the rest clock is never negative; while resting each tick takes one second
\* off it, never below 0; the tick that brings it to 0 ends the rest in the same
\* step, and no other tick does; the screen is resting exactly while the rest
\* clock is above 0, so a finished (or skipped) rest is not finished a second
\* time: a tick outside a rest changes nothing, whatever completeSet, +30s and
\* Skip Rest did in between.
C8_RestCountdown ==
    /\ [](/\ restTime >= 0
          /\ (isResting <=> restTime > 0)
          /\ (~isResting => restTimerTick(State) = State)
          /\ (isResting =>
                /\ restTimerTick(State).restTime = Max(restTime - 1, 0)
                /\ (restTimerTick(State).isResting <=>
                      restTimerTick(State).restTime > 0)))
    /\ [][RestTimerTick /\ isResting =>
            /\ restTime' = Max(restTime - 1, 0)
            /\ (restTime' = 0 <=> ~isResting')]_vars

\* A rest that was extended by +30s and has since counted down through at least
\* 27 ticks: no template rest is above 2.
C8_Witness == mounted /\ isResting /\ restTime = 4

\* C9: the rest clock does not look at pause: a tick while resting takes its
\* second off the rest clock also when the workout is paused or was never
\* started, and pauseWorkout / resumeWorkout change neither the rest clock nor
\* the resting flag.
C9_RestIgnoresPause ==
    /\ [](isResting /\ (isPaused \/ ~isWorkoutStarted) =>
            restTimerTick(State).restTime = restTime - 1)
    /\ [][(PauseWorkout \/ ResumeWorkout) =>
            restTime' = restTime /\ isResting' = isResting]_vars
    /\ [][RestTimerTick /\ isResting /\ (isPaused \/ ~isWorkoutStarted) =>
            restTime' = restTime - 1]_vars

\* Paused with a rest running that has already lost a second.
C9_Witness ==
    /\ mounted /\ isWorkoutStarted /\ isPaused /\ isResting
    /\ Len(exercises) = 1 /\ IsCompleted(State, 1, 1) /\ ~IsCompleted(State, 1, 2)
    /\ exercises[1].sets[1].restTime = 2 /\ restTime = 1

\* The fields of the state other than the three skipRestTimer sets.
OutsideRest(s) ==
    << s.template, s.workoutSession, s.exercises, s.currentExerciseIndex,
       s.isWorkoutStarted, s.isPaused, s.workoutTime, s.showFinishModal >>

\* C10: skipRestTimer, from any state, leaves resting = false and the rest clock
\* at 0 however much of the rest has elapsed, changes nothing else (set
\* completion and values, cursors, workout clock, started / paused), and applying
\* it twice gives the state that applying it once gives.
C10_SkipRest ==
    /\ [](mounted =>
            /\ ~skipRestTimer(State).isResting
            /\ skipRestTimer(State).restTime = 0
            /\ OutsideRest(skipRestTimer(State)) = OutsideRest(State)
            /\ skipRestTimer(skipRestTimer(State)) = skipRestTimer(State))
    /\ [][SkipRest =>
            /\ ~isResting' /\ restTime' = 0
            /\ OutsideRest(State') = OutsideRest(State)]_vars

\* A rest extended by +30s, part of it elapsed, its modal still open for Skip Rest.
C10_Witness == Rendered /\ showRestTimer /\ isResting /\ restTime = 30

\* The fields of the state other than the exercise cursor.
OutsideCursor(s) ==
    << s.template, s.workoutSession, s.exercises, s.isWorkoutStarted, s.isPaused,
       s.workoutTime, s.restTime, s.isResting, s.showRestTimer, s.showFinishModal >>

\* C11: Previous Exercise and Next Exercise change the exercise cursor and
\* nothing else: every exercise's currentSetIndex, every set's completed flag and
\* values, both clocks and the resting flag are as before, and going to the next
\* exercise and back gives the state one started from.  A target outside
\* [0, exercises.length) is rejected: the button is disabled exactly then, and
\* the handler itself leaves the cursor where it is.
C11_NavigationFrame ==
    Rendered =>
        /\ OutsideCursor(previousExercise(State)) = OutsideCursor(State)
        /\ OutsideCursor(nextExercise(State)) = OutsideCursor(State)
        /\ PreviousDisabled(State) <=> currentExerciseIndex - 1 < 0
        /\ NextDisabled(State) <=> currentExerciseIndex + 1 >= Len(exercises)
        /\ previousExercise(State).currentExerciseIndex =
             IF PreviousDisabled(State) THEN currentExerciseIndex
             ELSE currentExerciseIndex - 1
        /\ nextExercise(State).currentExerciseIndex =
             IF NextDisabled(State) THEN currentExerciseIndex
             ELSE currentExerciseIndex + 1
        /\ ~NextDisabled(State) => previousExercise(nextExercise(State)) = State
        /\ ~PreviousDisabled(State) => nextExercise(previousExercise(State)) = State

\* Back on the first exercise, its set still open, after a visit to the second
\* exercise that completed a set there.
C11_Witness ==
    /\ Rendered /\ Len(exercises) = 2 /\ currentExerciseIndex = 0
    /\ ~IsCompleted(State, 1, 1)
    /\ IsCompleted(State, 2, 1) /\ exercises[2].currentSetIndex = 1

\* C12 (as claimed): finishWorkout hands a record to the Session Store (calls
\* saveSession) only in a session that was started: with isWorkoutStarted still
\* false, which startWorkout alone changes, it fails and hands over nothing.
C12_FinalizeNeedsStart ==
    [][Len(pendingSaves') > Len(pendingSaves) => isWorkoutStarted]_vars

\* C13 (as claimed): the record finishWorkout hands to saveSession reflects the
\* state it was built from: each set's completed flag in the record is that
\* set's flag in the state, and with at least one set still incomplete the
\* record's session-level completed flag is false.
C13_RecordReflectsState ==
    [][Len(pendingSaves') > Len(pendingSaves) =>
        LET record == pendingSaves'[Len(pendingSaves')]
        IN  /\ \A p \in SetPositions :
                 record.exercises[p[1]].sets[p[2]].completed =
                     exercises[p[1]].sets[p[2]].completed
            /\ (\E p \in SetPositions : ~IsCompleted(State, p[1], p[2])) =>
                 ~record.completed]_vars

\* C14 (as claimed): once a record is persisted the session is terminal: no
\* later finalize persists or hands over another record, and as long as the
\* screen exists no operation changes the exercises, their sets and set cursors,
\* the exercise cursor or the started / paused flags.
C14_TerminalAfterFinalize ==
    [][savedSessions # << >> =>
        /\ savedSessions' = savedSessions
        /\ Len(pendingSaves') <= Len(pendingSaves)
        /\ mounted' =>
             /\ exercises' = exercises
             /\ currentExerciseIndex' = currentExerciseIndex
             /\ isWorkoutStarted' = isWorkoutStarted
             /\ isPaused' = isPaused]_vars

\* C15: in every state of a session that has exercises, whatever completeSet and
\* Previous / Next presses led to it, the exercise cursor points at an exercise:
\* 0 <= currentExerciseIndex < exercises.length.
C15_ExerciseCursorInRange ==
    mounted /\ Len(exercises) > 0 =>
        /\ 0 <= currentExerciseIndex
        /\ currentExerciseIndex < Len(exercises)

\* The last set of the last of two exercises was completed: completeSet took
\* its last branch and the cursor stayed on the last exercise.
C15_Witness ==
    /\ mounted /\ Len(exercises) = 2 /\ currentExerciseIndex = 1
    /\ IsCompleted(State, 2, Len(exercises[2].sets))
    /\ showFinishModal

\* C16 (as claimed): in every state, each exercise's currentSetIndex points at
\* one of its sets: 0 <= currentSetIndex < sets.length, from the state right
\* after the template was loaded to the state after the exercise's last set was
\* completed.
C16_SetCursorInRange ==
    mounted =>
        \A i \in DOMAIN exercises :
            /\ 0 <= exercises[i].currentSetIndex
            /\ exercises[i].currentSetIndex < Len(exercises[i].sets)

\* A valid template: a non-empty exercise list whose every entry plans at least
\* one set.
ValidTemplate(templateExercises) ==
    /\ Len(templateExercises) > 0
    /\ \A i \in DOMAIN templateExercises :
         /\ templateExercises[i].isArray
         /\ Len(templateExercises[i].sets_config) > 0

\* C17: the step that loads a valid template of N exercises with k_i planned
\* sets each leaves exactly N exercises, in the template's order, the i-th with
\* exactly k_i sets carrying the planned values, every set not completed, every
\* currentSetIndex 0, the exercise cursor 0, started and paused false and both
\* clocks 0.
C17_InitializeFromTemplate ==
    [][template = << >> /\ template' # << >> /\ ValidTemplate(template'[1]) =>
        LET templateExercises == template'[1]
        IN  /\ Len(exercises') = Len(templateExercises)
            /\ \A i \in DOMAIN templateExercises :
                 /\ Len(exercises'[i].sets) = Len(templateExercises[i].sets_config)
                 /\ exercises'[i].currentSetIndex = 0
                 /\ \A j \in DOMAIN templateExercises[i].sets_config :
                      /\ ~exercises'[i].sets[j].completed
                      /\ exercises'[i].sets[j].reps =
                           templateExercises[i].sets_config[j].reps
                      /\ exercises'[i].sets[j].weight =
                           templateExercises[i].sets_config[j].weight
                      /\ exercises'[i].sets[j].duration =
                           templateExercises[i].sets_config[j].duration
                      /\ exercises'[i].sets[j].restTime =
                           templateExercises[i].sets_config[j].restTime
            /\ currentExerciseIndex' = 0
            /\ ~isWorkoutStarted' /\ ~isPaused'
            /\ workoutTime' = 0 /\ restTime' = 0]_vars

\* The session right after the two-exercise template (one set, then two) was
\* loaded: nothing started, nothing completed, nothing typed.
C17_Witness ==
    /\ mounted /\ template # << >> /\ ValidTemplate(template[1])
    /\ Len(exercises) = 2
    /\ Len(exercises[1].sets) = 1 /\ Len(exercises[2].sets) = 2
    /\ \A p \in SetPositions : ~IsCompleted(State, p[1], p[2])
    /\ ~isWorkoutStarted /\ workoutTime = 0 /\ restTime = 0 /\ inputs = 0
    /\ currentExerciseIndex = 0

\* C18 (as claimed): loading a template whose exercise list is empty or has an
\* entry with zero planned sets fails: the session has no exercises and the main
\* screen is not rendered ("nothing to run"); no session ever holds an exercise
\* without sets.
C18_InitializeRejects ==
    mounted /\ template # << >> =>
        /\ ~ValidTemplate(template[1]) => Len(exercises) = 0
        /\ \A i \in DOMAIN exercises : Len(exercises[i].sets) > 0

\* C19: in every state and for every exercise the completed sets are the ones
\* before the cursor: a set with index < currentSetIndex is completed and a set
\* with index > currentSetIndex is not (the set at the cursor may be either),
\* whatever completeSet, navigation, rest ticks and Skip Rest did before.
C19_CompletedPrefix ==
    mounted =>
        \A i \in DOMAIN exercises :
            \A j \in DOMAIN exercises[i].sets :
                /\ (j - 1 < exercises[i].currentSetIndex =>
                        exercises[i].sets[j].completed)
                /\ (j - 1 > exercises[i].currentSetIndex =>
                        ~exercises[i].sets[j].completed)

\* One exercise of two sets with the cursor on the second: the first set is
\* completed, its rest is over, the second is still open.
C19_Witness ==
    /\ mounted /\ Len(exercises) = 1 /\ exercises[1].currentSetIndex = 1
    /\ IsCompleted(State, 1, 1) /\ ~IsCompleted(State, 1, 2)
    /\ ~isResting /\ restTime = 0

\* A step takes completeSet's last branch ("Workout complete"): it completes the
\* last set of the last exercise.
TakesWorkoutCompleteBranch ==
    /\ Len(exercises) > 0
    /\ Completes(Len(exercises), Len(exercises[Len(exercises)].sets))

\* C20 (as claimed): whenever completeSet takes its 'workout complete' branch,
\* every set of every exercise of the session is completed.
C20_Original ==
    [][TakesWorkoutCompleteBranch =>
        \A p \in SetPositions : IsCompleted(State', p[1], p[2])]_vars

\* C20 (amended): whenever completeSet takes its 'workout complete' branch, the
\* finish modal is open afterwards, the exercise cursor stays on the last
\* exercise, and every set of the last exercise is completed; the sets of
\* earlier exercises are completed up to those exercises' own cursors and no
\* further.
C20_WorkoutCompleteBranch ==
    [][TakesWorkoutCompleteBranch =>
        /\ showFinishModal'
        /\ currentExerciseIndex' = Len(exercises) - 1
        /\ \A j \in DOMAIN exercises[Len(exercises)].sets :
             IsCompleted(State', Len(exercises), j)
        /\ \A p \in SetPositions :
             p[2] - 1 < exercises[p[1]].currentSetIndex =>
                 IsCompleted(State', p[1], p[2])]_vars

\* The branch was taken after Next Exercise had passed over the first exercise:
\* both sets of the last exercise are completed, the finish modal is open, and
\* the first exercise's set is still open.
C20_Witness ==
    /\ mounted /\ Len(exercises) = 2 /\ currentExerciseIndex = 1
    /\ showFinishModal
    /\ IsCompleted(State, 2, 1) /\ IsCompleted(State, 2, 2)
    /\ ~IsCompleted(State, 1, 1)

\* C21 (as claimed): the Session Store holds at most one persisted record of the
\* session, and once a record is persisted no step hands another record to
\* saveSession.
C21_AtMostOneRecord ==
    [][/\ Len(savedSessions') <= 1
       /\ (savedSessions # << >> =>
              Len(pendingSaves') <= Len(pendingSaves))]_vars

\* C22 (as claimed): whenever deleteWorkoutPlan(planId) has returned false,
\* nothing was deleted: the plan's row in workout_plans and its rows in
\* plan_sessions are as they were when the call was made, whether the caller was
\* not the plan's trainer, the plan was not found, or a backend request failed.
C22_FalseMeansNothingDeleted ==
    deletePlan.pc = "done" /\ deletePlan.returned = "false" =>
        /\ workout_plans[deletePlan.planId] =
             deletePlan.plansBefore[deletePlan.planId]
        /\ plan_sessions[deletePlan.planId] =
             deletePlan.sessionsBefore[deletePlan.planId]

====
